---- MODULE Spec2Model ----
(***************************************************************************)
(* Model of the publish/subscribe inventory loop.                          *)
(*   src/unnamed/part_000 : queue-based bus (publish appends follow-ups to *)
(*                          a caller-owned pending list, driver drains it) *)
(*   src/app.ts           : recursive bus (publish re-enters itself)       *)
(***************************************************************************)
EXTENDS Integers, Sequences, FiniteSets, TLC

\* ---------------------------------------------------------------- bounds
\* length of the seed batch drawn by the driver
NumSeeds == 4
\* subscribe, unsubscribe and publish calls made by a caller of the bus
MaxCalls == 4

\* ------------------------------------------------------- program constants
\* low-stock threshold (literal 3 in the handlers)
Threshold == 3
\* Machine.stockLevel initialiser of the queue-based program
InitialStock == 3
\* Machine.stockLevel initialiser of the recursive program
AppInitialStock == 10

AllMachineIds == <<"001", "002", "003">>
\* ids of the machines of the registry: the model keeps the first two of the
\* three machines the driver creates
MachineIds == {AllMachineIds[1], AllMachineIds[2]}
\* an id no machine carries
UnknownMachineId == "999"

EventTypes == {"sale", "refill", "LowStock", "StockLevelOk"}

\* ------------------------------------------------------------------ events
\* the absence of an event (a handler falling off its end)
undefined == [cls |-> "undefined", machineId |-> "", quantity |-> 0]

MachineSaleEvent(sold, id) ==
    [cls |-> "MachineSaleEvent", machineId |-> id, quantity |-> sold]

MachineRefillEvent(refill, id) ==
    [cls |-> "MachineRefillEvent", machineId |-> id, quantity |-> refill]

LowStockWarningEvent(id) ==
    [cls |-> "LowStockWarningEvent", machineId |-> id, quantity |-> 0]

StockLevelOkEvent(id) ==
    [cls |-> "StockLevelOkEvent", machineId |-> id, quantity |-> 0]

\* IEvent.type() of each event class
type(event) ==
    CASE event.cls = "MachineSaleEvent" -> "sale"
      [] event.cls = "MachineRefillEvent" -> "refill"
      [] event.cls = "LowStockWarningEvent" -> "LowStock"
      [] event.cls = "StockLevelOkEvent" -> "StockLevelOk"

\* machines.find((m) => m.id === event.machineId()) finds a machine
found(ms, event) == event.machineId \in DOMAIN ms

\* ------------------------------------------- subscribers of part_000
\* a handler's outcome: the registry's stock levels after it, and its result
Outcome(ms, ret) == [machines |-> ms, ret |-> ret, threw |-> FALSE]

\* a handler ending in a TypeError (a method the event does not have)
Throw(ms) == [machines |-> ms, ret |-> undefined, threw |-> TRUE]

MachineSaleSubscriber_handle_NoOldLevel(ms, event) ==
    IF event.cls = "MachineSaleEvent" /\ found(ms, event)
    THEN LET id == event.machineId
             newLevel == ms[id] - event.quantity
         IN  Outcome([ms EXCEPT ![id] = newLevel],
                     IF newLevel < Threshold THEN LowStockWarningEvent(id)
                                             ELSE undefined)
    ELSE Outcome(ms, undefined)

MachineSaleSubscriber_handle_FirstMachine(ms, event) ==
    IF event.cls = "MachineSaleEvent"
    THEN LET id == IF found(ms, event) THEN event.machineId
                                       ELSE AllMachineIds[1]
             oldLevel == ms[id]
             newLevel == oldLevel - event.quantity
         IN  Outcome([ms EXCEPT ![id] = newLevel],
                     IF newLevel < Threshold /\ oldLevel >= Threshold
                     THEN LowStockWarningEvent(id)
                     ELSE undefined)
    ELSE Outcome(ms, undefined)

MachineSaleSubscriber_handle(ms, event) ==
    IF event.cls = "MachineSaleEvent"
    THEN IF found(ms, event)
         THEN LET id == event.machineId
                  oldLevel == ms[id]
                  newLevel == oldLevel - event.quantity
              IN  Outcome([ms EXCEPT ![id] = newLevel],
                          IF newLevel < Threshold /\ oldLevel >= Threshold
                          THEN LowStockWarningEvent(id)
                          ELSE undefined)
         ELSE Outcome(ms, undefined)
    ELSE Outcome(ms, undefined)

MachineRefillSubscriber_handle_NoOldLevel(ms, event) ==
    IF event.cls = "MachineRefillEvent" /\ found(ms, event)
    THEN LET id == event.machineId
             newLevel == ms[id] + event.quantity
         IN  Outcome([ms EXCEPT ![id] = newLevel],
                     IF newLevel >= Threshold THEN StockLevelOkEvent(id)
                                              ELSE undefined)
    ELSE Outcome(ms, undefined)

MachineRefillSubscriber_handle(ms, event) ==
    IF event.cls = "MachineRefillEvent"
    THEN IF found(ms, event)
         THEN LET id == event.machineId
                  oldLevel == ms[id]
                  newLevel == oldLevel + event.quantity
              IN  Outcome([ms EXCEPT ![id] = newLevel],
                          IF newLevel >= Threshold /\ oldLevel < Threshold
                          THEN StockLevelOkEvent(id)
                          ELSE undefined)
         ELSE Outcome(ms, undefined)
    ELSE Outcome(ms, undefined)

StockwarningSubscriber_handle_FullRefill(ms, event) ==
    IF event.cls = "LowStockWarningEvent" /\ found(ms, event)
    THEN Outcome(ms, MachineRefillEvent(Threshold, event.machineId))
    ELSE Outcome(ms, undefined)

StockwarningSubscriber_handle_RefillsItself(ms, event) ==
    IF event.cls = "LowStockWarningEvent" /\ found(ms, event)
    THEN Outcome([ms EXCEPT ![event.machineId] = Threshold], undefined)
    ELSE Outcome(ms, undefined)

StockwarningSubscriber_handle(ms, event) ==
    IF event.cls = "LowStockWarningEvent"
    THEN IF found(ms, event)
         THEN Outcome(ms, MachineRefillEvent(Threshold - ms[event.machineId],
                                             event.machineId))
         ELSE Outcome(ms, undefined)
    ELSE Outcome(ms, undefined)

StockLevelOkSubscriber_handle_Echo(ms, event) ==
    IF event.cls = "StockLevelOkEvent" /\ found(ms, event)
    THEN Outcome(ms, event)
    ELSE Outcome(ms, undefined)

StockLevelOkSubscriber_handle(ms, event) == Outcome(ms, undefined)

\* the subscriber objects: the four the driver creates, and a second
\* instance of StockwarningSubscriber that an API caller may create
Subscribers ==
    {"saleSubscriber", "refilSubscriber", "stockWarningSubscriber",
     "stockLevelOkSubscriber", "stockWarningSubscriber2"}

\* the class of each subscriber object
classOf(subscriber) ==
    CASE subscriber = "saleSubscriber" -> "MachineSaleSubscriber"
      [] subscriber = "refilSubscriber" -> "MachineRefillSubscriber"
      [] subscriber = "stockWarningSubscriber" -> "StockwarningSubscriber"
      [] subscriber = "stockWarningSubscriber2" -> "StockwarningSubscriber"
      [] subscriber = "stockLevelOkSubscriber" -> "StockLevelOkSubscriber"

\* subscriber.handle(event), dispatched on the subscriber's class
handle(subscriber, ms, event) ==
    CASE classOf(subscriber) = "MachineSaleSubscriber" ->
            MachineSaleSubscriber_handle(ms, event)
      [] classOf(subscriber) = "MachineRefillSubscriber" ->
            MachineRefillSubscriber_handle(ms, event)
      [] classOf(subscriber) = "StockwarningSubscriber" ->
            StockwarningSubscriber_handle(ms, event)
      [] classOf(subscriber) = "StockLevelOkSubscriber" ->
            StockLevelOkSubscriber_handle(ms, event)

\* ------------------------------------------ PublishSubscribeService
\* The Map<string, Set<ISubscriber>> is a function from the keys present to
\* the members of each Set in insertion order (the order forEach visits).
Range(s) == {s[i] : i \in 1..Len(s)}

SetAdd_Twice(set, subscriber) == Append(set, subscriber)

\* Set.prototype.add
SetAdd(set, subscriber) ==
    IF subscriber \in Range(set) THEN set ELSE Append(set, subscriber)

\* Set.prototype.delete
SetDelete(set, subscriber) ==
    SelectSeq(set, LAMBDA x : x # subscriber)

subscribe(registry, eventType, subscriber) ==
    LET withKey == IF eventType \in DOMAIN registry
                   THEN registry
                   ELSE registry @@ (eventType :> <<>>)
    IN  [withKey EXCEPT ![eventType] = SetAdd(@, subscriber)]

unsubscribe_Nothing(registry, eventType, subscriber) == registry

unsubscribe_WholeType(registry, eventType, subscriber) ==
    IF eventType \in DOMAIN registry
    THEN [registry EXCEPT ![eventType] = <<>>]
    ELSE registry

unsubscribe(registry, eventType, subscriber) ==
    IF eventType \in DOMAIN registry
    THEN [registry EXCEPT ![eventType] = SetDelete(@, subscriber)]
    ELSE registry

\* if (newEvent) events.push(newEvent)
push_Merge(evs, newEvent) ==
    IF newEvent = undefined \/ newEvent \in Range(evs) THEN evs
                                                     ELSE Append(evs, newEvent)

push_Nothing(evs, newEvent) == evs

push(evs, newEvent) ==
    IF newEvent = undefined THEN evs ELSE Append(evs, newEvent)

\* one handle call as observed: who was called, the stock levels around it,
\* and what it returned
Call(subscriber, event, before, after, ret) ==
    [subscriber |-> subscriber, event |-> event, before |-> before,
     after |-> after, ret |-> ret]

\* subscribers.forEach(...) of publish, from the i-th member on
RECURSIVE forEach(_, _, _, _, _, _)
forEach(set, i, event, ms, evs, calls) ==
    IF i > Len(set)
    THEN [machines |-> ms, events |-> evs, calls |-> calls]
    ELSE LET out == handle(set[i], ms, event)
         IN  forEach(set, i + 1, event, out.machines, push(evs, out.ret),
                     Append(calls,
                            Call(set[i], event, ms, out.machines, out.ret)))

\* the members of every Set of the Map, one Set after the other
Everyone(registry) ==
    LET of(t) == IF t \in DOMAIN registry THEN registry[t] ELSE <<>>
    IN  of("sale") \o of("refill") \o of("LowStock") \o of("StockLevelOk")

publish_Broadcast(registry, ms, event, evs) ==
    IF type(event) \in DOMAIN registry
    THEN forEach(registry[type(event)], 1, event, ms, evs, <<>>)
    ELSE forEach(Everyone(registry), 1, event, ms, evs, <<>>)

\* publish(_event, events) of part_000
publish(registry, ms, event, evs) ==
    IF type(event) \in DOMAIN registry
    THEN forEach(registry[type(event)], 1, event, ms, evs, <<>>)
    ELSE [machines |-> ms, events |-> evs, calls |-> <<>>]

\* events.shift() : the event removed and the list left
shift_Last(evs) ==
    [event |-> evs[Len(evs)], rest |-> SubSeq(evs, 1, Len(evs) - 1)]

shift(evs) == [event |-> Head(evs), rest |-> Tail(evs)]

\* ------------------------------------------------------------------ state
VARIABLES
    subscribers,  \* PublishSubscribeService.subscribers
    machines,     \* stockLevel of each Machine, by id
    events,       \* the pending list of the driver
    pc,           \* position of the running program
    enqueued,     \* every event put on the pending list so far, in order
    dispatched,   \* every event passed to publish by the drain loop, in order
    last,         \* the last operation: its arguments, the state before it,
                  \* and the handle calls it made
    calls,        \* number of subscribe, unsubscribe and publish calls made
                  \* by a caller of the bus
    seeds,        \* the batch the driver seeded the pending list with
    trace         \* whether seeds, enqueued and dispatched are being recorded

vars == <<subscribers, machines, events, pc, enqueued, dispatched, last, calls,
          seeds, trace>>

\* the follow-up events a publish pushed, in the order it pushed them
RECURSIVE Pushed(_)
Pushed(cs) ==
    IF cs = <<>> THEN <<>>
    ELSE (IF Head(cs).ret = undefined THEN <<>> ELSE <<Head(cs).ret>>)
         \o Pushed(Tail(cs))

NoOp ==
    [op |-> "none", type |-> "", subscriber |-> "", event |-> undefined,
     subscribers |-> <<>>, machines |-> <<>>, events |-> <<>>, calls |-> <<>>,
     threw |-> FALSE]

EmptyMap == [t \in {} |-> <<>>]

\* ------------------------------------------------- driver of part_000
\* the events eventGenerator can return
GeneratedEvents ==
    {MachineSaleEvent(q, m) : q \in {1, 2}, m \in MachineIds}
    \cup {MachineRefillEvent(q, m) : q \in {3, 5}, m \in MachineIds}

Init ==
    /\ subscribers = EmptyMap
    /\ machines = [m \in MachineIds |-> InitialStock]
    /\ events = <<>>
    /\ pc = "subscribe"
    /\ enqueued = <<>>
    /\ dispatched = <<>>
    /\ last = NoOp
    /\ calls = 0
    /\ seeds = <<>>
    /\ trace = TRUE

\* the same program, observed without the unbounded record of its run
InitUntraced ==
    /\ subscribers = EmptyMap
    /\ machines = [m \in MachineIds |-> InitialStock]
    /\ events = <<>>
    /\ pc = "subscribe"
    /\ enqueued = <<>>
    /\ dispatched = <<>>
    /\ last = NoOp
    /\ calls = 0
    /\ seeds = <<>>
    /\ trace = FALSE

\* the four pubSubService.subscribe calls
DriverSubscribe ==
    /\ pc = "subscribe"
    /\ subscribers' =
          subscribe(
            subscribe(
              subscribe(
                subscribe(subscribers, "sale", "saleSubscriber"),
                "refill", "refilSubscriber"),
              "LowStock", "stockWarningSubscriber"),
            "StockLevelOk", "stockLevelOkSubscriber")
    /\ pc' = "seed"
    /\ UNCHANGED <<machines, events, enqueued, dispatched, last, calls, seeds,
                   trace>>

\* const events = [...].map((i) => eventGenerator()) : one call of
\* eventGenerator, its result added to the batch
DriverSeed ==
    /\ pc = "seed"
    /\ Len(events) < NumSeeds
    /\ \E e \in GeneratedEvents :
          /\ events' = Append(events, e)
          /\ seeds' = IF trace THEN Append(seeds, e) ELSE seeds
          /\ enqueued' = IF trace THEN Append(enqueued, e) ELSE enqueued
    /\ UNCHANGED <<subscribers, machines, pc, dispatched, last, calls, trace>>

\* the batch is complete
DriverSeeded ==
    /\ pc = "seed"
    /\ pc' = "drain"
    /\ UNCHANGED <<subscribers, machines, events, enqueued, dispatched, last,
                   calls, seeds, trace>>

\* one iteration of while (events.length > 0) publish(events.shift(), events)
DriverDrain ==
    /\ pc = "drain"
    /\ Len(events) > 0
    /\ LET sh == shift(events)
           out == publish(subscribers, machines, sh.event, sh.rest)
       IN  /\ machines' = out.machines
           /\ events' = out.events
           /\ dispatched' = IF trace THEN Append(dispatched, sh.event)
                                      ELSE dispatched
           /\ enqueued' = IF trace THEN enqueued \o Pushed(out.calls)
                                    ELSE enqueued
           /\ last' = [op |-> "publish", type |-> type(sh.event),
                       subscriber |-> "", event |-> sh.event,
                       subscribers |-> subscribers, machines |-> machines,
                       events |-> sh.rest, calls |-> out.calls,
                       threw |-> FALSE]
    /\ UNCHANGED <<subscribers, pc, calls, seeds, trace>>

\* the loop exits and the stock levels are logged
DriverFinish ==
    /\ pc = "drain"
    /\ Len(events) = 0
    /\ pc' = "done"
    /\ UNCHANGED <<subscribers, machines, events, enqueued, dispatched, last,
                   calls, seeds, trace>>

Next ==
    DriverSubscribe \/ DriverSeed \/ DriverSeeded \/ DriverDrain
    \/ DriverFinish

Spec == Init /\ [][Next]_vars

\* the run is single-threaded and synchronous: it always takes its next step
FairSpec == InitUntraced /\ [][Next]_vars /\ WF_vars(Next)

\* --------------------------------------- a caller of the part_000 bus
\* The bus and the subscribers as any caller may drive them: subscribe,
\* unsubscribe and publish in any order and with any arguments, and drain
\* steps of the pending list.
ApiMachineIds == {AllMachineIds[1], UnknownMachineId}

\* the subscriber objects of the caller
ApiSubscribers ==
    {"saleSubscriber", "refilSubscriber", "stockWarningSubscriber",
     "stockWarningSubscriber2"}

ApiEvents ==
    {MachineSaleEvent(q, m) : q \in {1, 2}, m \in ApiMachineIds}
    \cup {MachineRefillEvent(q, m) : q \in {3, 5}, m \in ApiMachineIds}
    \cup {LowStockWarningEvent(m) : m \in ApiMachineIds}
    \cup {StockLevelOkEvent(m) : m \in ApiMachineIds}

InitApi ==
    /\ subscribers = EmptyMap
    /\ machines = [m \in MachineIds |-> InitialStock]
    /\ events = <<>>
    /\ pc = "api"
    /\ enqueued = <<>>
    /\ dispatched = <<>>
    /\ last = NoOp
    /\ calls = 0
    /\ seeds = <<>>
    /\ trace = FALSE

\* the state an operation found, for the record of it
Before(op, t, s, e, cs) ==
    [op |-> op, type |-> t, subscriber |-> s, event |-> e,
     subscribers |-> subscribers, machines |-> machines, events |-> events,
     calls |-> cs, threw |-> FALSE]

ApiSubscribe ==
    /\ pc = "api"
    /\ calls < MaxCalls
    /\ \E t \in EventTypes, s \in ApiSubscribers :
          /\ subscribers' = subscribe(subscribers, t, s)
          /\ last' = Before("subscribe", t, s, undefined, <<>>)
    /\ calls' = calls + 1
    /\ UNCHANGED <<machines, events, pc, enqueued, dispatched, seeds, trace>>

ApiUnsubscribe ==
    /\ pc = "api"
    /\ calls < MaxCalls
    /\ \E t \in EventTypes, s \in ApiSubscribers :
          /\ subscribers' = unsubscribe(subscribers, t, s)
          /\ last' = Before("unsubscribe", t, s, undefined, <<>>)
    /\ calls' = calls + 1
    /\ UNCHANGED <<machines, events, pc, enqueued, dispatched, seeds, trace>>

\* pubSubService.publish(e, events) with an event of the caller
ApiPublish ==
    /\ pc = "api"
    /\ calls < MaxCalls
    /\ \E e \in ApiEvents :
          LET out == publish(subscribers, machines, e, events)
          IN  /\ machines' = out.machines
              /\ events' = out.events
              /\ last' = Before("publish", type(e), "", e, out.calls)
    /\ calls' = calls + 1
    /\ UNCHANGED <<subscribers, pc, enqueued, dispatched, seeds, trace>>

\* pubSubService.publish(events.shift(), events)
ApiDrain ==
    /\ pc = "api"
    /\ Len(events) > 0
    /\ LET sh == shift(events)
           out == publish(subscribers, machines, sh.event, sh.rest)
       IN  /\ machines' = out.machines
           /\ events' = out.events
           /\ last' = [Before("publish", type(sh.event), "", sh.event,
                              out.calls) EXCEPT !.events = sh.rest]
    /\ UNCHANGED <<subscribers, pc, enqueued, dispatched, calls, seeds, trace>>

NextApi == ApiSubscribe \/ ApiUnsubscribe \/ ApiPublish \/ ApiDrain

SpecApi == InitApi /\ [][NextApi]_vars

\* ---------------------------------------------------- program of app.ts
\* The bus and the two subscriber classes of app.ts, as a caller may drive
\* them (its own main registers no subscriber).
\* MachineSaleSubscriber.handle of app.ts: no class check, no old level
App_MachineSaleSubscriber_handle(ms, event) ==
    IF found(ms, event)
    THEN IF event.cls = "MachineSaleEvent"
         THEN LET id == event.machineId
                  newLevel == ms[id] - event.quantity
              IN  Outcome([ms EXCEPT ![id] = newLevel],
                          IF newLevel < Threshold THEN LowStockWarningEvent(id)
                                                  ELSE undefined)
         ELSE Throw(ms)   \* event.getSoldQuantity is not a function
    ELSE Outcome(ms, undefined)

\* MachineRefillSubscriber.handle of app.ts
App_MachineRefillSubscriber_handle(ms, event) ==
    IF found(ms, event)
    THEN IF event.cls = "MachineRefillEvent"
         THEN LET id == event.machineId
                  newLevel == ms[id] + event.quantity
              IN  Outcome([ms EXCEPT ![id] = newLevel],
                          IF newLevel >= Threshold THEN StockLevelOkEvent(id)
                                                   ELSE undefined)
         ELSE Throw(ms)   \* event.getRefillQuantity is not a function
    ELSE Outcome(ms, undefined)

\* the subscriber objects a caller of app.ts can create
AppSubscribers == {"saleSubscriber", "refilSubscriber"}

App_handle(subscriber, ms, event) ==
    CASE classOf(subscriber) = "MachineSaleSubscriber" ->
            App_MachineSaleSubscriber_handle(ms, event)
      [] classOf(subscriber) = "MachineRefillSubscriber" ->
            App_MachineRefillSubscriber_handle(ms, event)

\* publish(event) of app.ts: each follow-up is published, and fully resolved,
\* before the next subscriber is called; an exception ends everything.
\* acc carries the stock levels, the handle calls made so far and whether an
\* exception is propagating.
RECURSIVE App_publish(_, _, _)
RECURSIVE App_forEach(_, _, _, _, _)
App_forEach(registry, set, i, event, acc) ==
    IF i > Len(set) \/ acc.threw
    THEN acc
    ELSE LET out == App_handle(set[i], acc.machines, event)
             called == [machines |-> out.machines,
                        calls |-> Append(acc.calls,
                                         Call(set[i], event, acc.machines,
                                              out.machines, out.ret)),
                        threw |-> out.threw]
             resolved == IF out.threw \/ out.ret = undefined
                         THEN called
                         ELSE App_publish(registry, out.ret, called)
         IN  App_forEach(registry, set, i + 1, event, resolved)

App_publish(registry, event, acc) ==
    IF type(event) \in DOMAIN registry
    THEN App_forEach(registry, registry[type(event)], 1, event, acc)
    ELSE acc

\* levels a caller of app.ts lets a machine reach before it stops publishing
AppLevels == 0..AppInitialStock

InitApp ==
    /\ subscribers = EmptyMap
    /\ machines = [m \in MachineIds |-> AppInitialStock]
    /\ events = <<>>
    /\ pc = "app"
    /\ enqueued = <<>>
    /\ dispatched = <<>>
    /\ last = NoOp
    /\ calls = 0
    /\ seeds = <<>>
    /\ trace = FALSE

AppSubscribe ==
    /\ pc = "app"
    /\ calls < MaxCalls
    /\ \E t \in EventTypes, s \in AppSubscribers :
          /\ subscribers' = subscribe(subscribers, t, s)
          /\ last' = Before("subscribe", t, s, undefined, <<>>)
    /\ calls' = calls + 1
    /\ UNCHANGED <<machines, events, pc, enqueued, dispatched, seeds, trace>>

AppUnsubscribe ==
    /\ pc = "app"
    /\ calls < MaxCalls
    /\ \E t \in EventTypes, s \in AppSubscribers :
          /\ subscribers' = unsubscribe(subscribers, t, s)
          /\ last' = Before("unsubscribe", t, s, undefined, <<>>)
    /\ calls' = calls + 1
    /\ UNCHANGED <<machines, events, pc, enqueued, dispatched, seeds, trace>>

\* pubSubService.publish(e) with an event of the caller
AppPublish ==
    /\ pc = "app"
    /\ \A m \in MachineIds : machines[m] \in AppLevels
    /\ \E e \in ApiEvents :
          LET out == App_publish(subscribers, e,
                                 [machines |-> machines, calls |-> <<>>,
                                  threw |-> FALSE])
          IN  /\ machines' = out.machines
              /\ last' = [Before("publish", type(e), "", e, out.calls)
                            EXCEPT !.threw = out.threw]
    /\ UNCHANGED <<subscribers, events, pc, enqueued, dispatched, calls, seeds,
                   trace>>

NextApp == AppSubscribe \/ AppUnsubscribe \/ AppPublish

SpecApp == InitApp /\ [][NextApp]_vars

\* ----------------------- publish of app.ts over the subscribers of part_000
\* The recursive publish of app.ts (each follow-up published, and resolved,
\* before the next subscriber is called) delivering to the handle methods of
\* part_000.
RECURSIVE Recursive_publish(_, _, _)
RECURSIVE Recursive_forEach(_, _, _, _, _)
Recursive_forEach(registry, set, i, event, ms) ==
    IF i > Len(set)
    THEN ms
    ELSE LET out == handle(set[i], ms, event)
             resolved == IF out.ret = undefined
                         THEN out.machines
                         ELSE Recursive_publish(registry, out.ret, out.machines)
         IN  Recursive_forEach(registry, set, i + 1, event, resolved)

Recursive_publish(registry, event, ms) ==
    IF type(event) \in DOMAIN registry
    THEN Recursive_forEach(registry, registry[type(event)], 1, event, ms)
    ELSE ms

\* the seeds published one after the other, each with its cascades resolved
\* before the next: the stock levels at the end
RECURSIVE Recursive_run(_, _, _)
Recursive_run(registry, batch, ms) ==
    IF batch = <<>> THEN ms
    ELSE Recursive_run(registry, Tail(batch),
                       Recursive_publish(registry, Head(batch), ms))

\* -------------------------------------------------------------- properties
\* the handle calls of the last publish
LastCalls == {last.calls[i] : i \in 1..Len(last.calls)}

\* C1: MachineSaleSubscriber.handle on a Sale for a registered machine
\* decrements that machine by the sold quantity and returns a
\* LowStockWarning for it exactly when the level was >= 3 before and is < 3
\* after; in every other case it returns nothing.
C1_SaleWarnsOnDownwardCrossingOnly ==
    \A c \in LastCalls :
        LET m == c.event.machineId IN
        (/\ classOf(c.subscriber) = "MachineSaleSubscriber"
         /\ c.event.cls = "MachineSaleEvent"
         /\ m \in DOMAIN c.before)
        => /\ c.after[m] = c.before[m] - c.event.quantity
           /\ c.ret = IF c.before[m] >= 3 /\ c.after[m] < 3
                      THEN LowStockWarningEvent(m)
                      ELSE undefined

\* a Sale handled while the machine was already below 3, returning nothing
C1_Witness ==
    \E c \in LastCalls :
        /\ classOf(c.subscriber) = "MachineSaleSubscriber"
        /\ c.event.cls = "MachineSaleEvent"
        /\ c.before[c.event.machineId] < 3
        /\ c.ret = undefined

\* C2: MachineRefillSubscriber.handle on a Refill for a registered machine
\* increments that machine by the refill quantity and returns a StockLevelOk
\* for it exactly when the level was < 3 before and is >= 3 after; in every
\* other case it returns nothing.
C2_RefillOkOnUpwardCrossingOnly ==
    \A c \in LastCalls :
        LET m == c.event.machineId IN
        (/\ classOf(c.subscriber) = "MachineRefillSubscriber"
         /\ c.event.cls = "MachineRefillEvent"
         /\ m \in DOMAIN c.before)
        => /\ c.after[m] = c.before[m] + c.event.quantity
           /\ c.ret = IF c.before[m] < 3 /\ c.after[m] >= 3
                      THEN StockLevelOkEvent(m)
                      ELSE undefined

\* a Refill handled while the machine was already at 3 or more, returning
\* nothing
C2_Witness ==
    \E c \in LastCalls :
        /\ classOf(c.subscriber) = "MachineRefillSubscriber"
        /\ c.event.cls = "MachineRefillEvent"
        /\ c.before[c.event.machineId] >= 3
        /\ c.ret = undefined

\* C7: the drain loop dispatches in enqueue order: what has been dispatched,
\* followed by what is pending, is exactly what was enqueued, in that order
\* (seeds first, then cascades in the order they were pushed).
C7_DispatchInEnqueueOrder ==
    pc \in {"drain", "done"} => enqueued = dispatched \o events

\* a cascade dispatched after two events that were pending when it was pushed
C7_Witness ==
    \E k \in 3..Len(dispatched) :
        /\ dispatched[k].cls = "LowStockWarningEvent"
        /\ dispatched[1].cls = "MachineSaleEvent"
        /\ dispatched[2] # dispatched[1]
        /\ Len(seeds) = 3
        /\ pc = "done"

\* the run of C8 for machine m: what it dispatches, in order
CascadeOfSale2(m) ==
    <<MachineSaleEvent(2, m), LowStockWarningEvent(m),
      MachineRefillEvent(3 - (3 - 2), m), StockLevelOkEvent(m)>>

IsPrefix(s, t) == Len(s) <= Len(t) /\ s = SubSeq(t, 1, Len(s))

\* C8: a run seeded with the single event Sale(2) on a machine at stock 3
\* dispatches Sale, LowStockWarning, Refill(2), StockLevelOk in that order and
\* nothing else, and ends with an empty queue and that machine at stock 3.
C8_SingleSaleCascade ==
    \A m \in MachineIds :
        (pc \in {"drain", "done"} /\ seeds = <<MachineSaleEvent(2, m)>>)
        => /\ IsPrefix(dispatched \o events, CascadeOfSale2(m))
           /\ pc = "done" => /\ dispatched = CascadeOfSale2(m)
                             /\ events = <<>>
                             /\ machines[m] = 3

\* such a run, ended
C8_Witness ==
    /\ pc = "done"
    /\ \E m \in MachineIds : seeds = <<MachineSaleEvent(2, m)>>
    /\ Len(dispatched) = 4

\* C9: the drain loop terminates: every run of the driver reaches the end of
\* the program with an empty pending list.
C9_DrainTerminates == <>(pc = "done" /\ events = <<>>)

\* a run that ended after a full cascade went through the queue
C9_Witness ==
    /\ pc = "done"
    /\ events = <<>>
    /\ last.event.cls = "StockLevelOkEvent"
    /\ last.calls # <<>>

\* C3 (as claimed): in app.ts, MachineSaleSubscriber handling a Sale for a
\* machine already below 3 returns nothing, so publish dispatches no
\* follow-up.
C3_AppNoWarningWhenAlreadyBelow ==
    \A c \in LastCalls :
        (/\ pc = "app"
         /\ classOf(c.subscriber) = "MachineSaleSubscriber"
         /\ c.event.cls = "MachineSaleEvent"
         /\ c.event.machineId \in DOMAIN c.before
         /\ c.before[c.event.machineId] < 3)
        => c.ret = undefined

\* the Sets of the Map under a type, as a set (empty when the key is absent)
Registered(registry, t) ==
    IF t \in DOMAIN registry THEN Range(registry[t]) ELSE {}

\* how many of the handle calls cs were made on subscriber s
TimesCalled(cs, s) == Cardinality({i \in 1..Len(cs) : cs[i].subscriber = s})

\* C4: subscribe is idempotent. A subscribe(t, s) made while s is already
\* subscribed to t leaves the registry as it was, and a publish of any event
\* of type t then calls s.handle exactly once; a Sale published to the sale
\* subscriber so registered lowers the stock once and queues at most one
\* follow-up. Every publish calls each subscriber of the event's type exactly
\* once and no one else.
C4_SubscribeIdempotent ==
    /\ \A t \in EventTypes, s \in ApiSubscribers :
          subscribe(subscribe(subscribers, t, s), t, s)
             = subscribe(subscribers, t, s)
    /\ (last.op = "subscribe"
        /\ last.subscriber \in Registered(last.subscribers, last.type))
       => /\ subscribers = last.subscribers
          /\ \A e \in ApiEvents :
                type(e) = last.type =>
                LET out == publish(subscribers, machines, e, events) IN
                /\ TimesCalled(out.calls, last.subscriber) = 1
                /\ (/\ e.cls = "MachineSaleEvent"
                    /\ last.subscriber = "saleSubscriber"
                    /\ e.machineId \in MachineIds)
                   => /\ out.machines[e.machineId]
                           = machines[e.machineId] - e.quantity
                      /\ Len(out.events) <= Len(events) + 1
    /\ last.op = "publish"
       => \A s \in ApiSubscribers :
             TimesCalled(last.calls, s)
                = IF s \in Registered(last.subscribers, last.type) THEN 1 ELSE 0

\* the sale subscriber has just been subscribed to "sale" a second time
C4_Witness ==
    /\ last.op = "subscribe"
    /\ last.type = "sale"
    /\ last.subscriber = "saleSubscriber"
    /\ "saleSubscriber" \in Registered(last.subscribers, "sale")

\* C5: after unsubscribe(t, s) a publish of an event of type t does not call
\* s, and no publish calls a subscriber that is not subscribed to the event's
\* type; with the sale subscriber not subscribed to "sale", a published Sale
\* changes no stock level and appends nothing to the pending list.
C5_UnsubscribedIsNotCalled ==
    /\ last.op = "unsubscribe"
       => \A e \in ApiEvents :
             type(e) = last.type =>
             LET out == publish(subscribers, machines, e, events) IN
             /\ TimesCalled(out.calls, last.subscriber) = 0
             /\ (last.type = "sale" /\ last.subscriber = "saleSubscriber")
                => /\ out.machines = machines
                   /\ out.events = events
    /\ last.op = "publish"
       => /\ \A c \in LastCalls :
                c.subscriber \in Registered(last.subscribers, last.type)
          /\ (/\ last.event.cls = "MachineSaleEvent"
              /\ "saleSubscriber" \notin Registered(last.subscribers, "sale"))
             => /\ machines = last.machines
                /\ events = last.events

\* the sale subscriber, subscribed to "sale", has just been unsubscribed
C5_Witness ==
    /\ last.op = "unsubscribe"
    /\ last.type = "sale"
    /\ last.subscriber = "saleSubscriber"
    /\ "saleSubscriber" \in Registered(last.subscribers, "sale")
    /\ "saleSubscriber" \notin Registered(subscribers, "sale")

\* C6: publish(e, queue) leaves on the queue what it held, followed by one
\* follow-up for each subscriber of e.type() whose handle returned an event,
\* in the order the subscribers were called; equal follow-ups are both kept.
C6_EveryFollowUpIsQueued ==
    last.op = "publish"
    => /\ Len(last.calls) = Cardinality(Registered(last.subscribers, last.type))
       /\ events = last.events \o Pushed(last.calls)
       /\ Len(events) = Len(last.events)
             + Cardinality({i \in 1..Len(last.calls) :
                              last.calls[i].ret # undefined})

\* two subscribers of one type returned equal follow-ups: two are queued
C6_Witness ==
    /\ last.op = "publish"
    /\ Len(last.calls) = 2
    /\ last.calls[1].ret # undefined
    /\ last.calls[1].ret = last.calls[2].ret
    /\ Len(events) = Len(last.events) + 2

\* C10: a publish of an event whose type has no subscriber set returns
\* normally and changes nothing: no handler is called, the stock levels, the
\* registry and the pending list are as before.
C10_NoSubscriberSetIsDropped ==
    (last.op = "publish" /\ last.type \notin DOMAIN last.subscribers)
    => /\ last.calls = <<>>
       /\ ~last.threw
       /\ machines = last.machines
       /\ subscribers = last.subscribers
       /\ events = last.events

\* a Sale for a registered machine published while the sale subscriber is
\* subscribed, but to another type, and "sale" was never subscribed
C10_Witness ==
    /\ last.op = "publish"
    /\ last.event.cls = "MachineSaleEvent"
    /\ last.event.machineId \in MachineIds
    /\ "sale" \notin DOMAIN last.subscribers
    /\ \E t \in DOMAIN last.subscribers :
          "saleSubscriber" \in Range(last.subscribers[t])

\* C11: a publish of an event whose machineId matches no machine changes no
\* stock level and queues nothing: every handler called returns nothing and
\* nothing is raised.
C11_UnknownMachineIsNoOp ==
    (last.op = "publish" /\ last.event.machineId \notin MachineIds)
    => /\ \A c \in LastCalls : c.ret = undefined /\ c.after = c.before
       /\ ~last.threw
       /\ machines = last.machines
       /\ events = last.events

\* a Sale for machine "999" handed to the sale subscriber
C11_Witness ==
    /\ last.op = "publish"
    /\ last.event.cls = "MachineSaleEvent"
    /\ last.event.machineId = UnknownMachineId
    /\ \E c \in LastCalls : c.subscriber = "saleSubscriber"

\* C12: unsubscribe(t, s) with s not subscribed to t, or with t never
\* subscribed, leaves the whole registry as it was; a second unsubscribe(t, s)
\* changes nothing more than the first.
C12_UnsubscribeAbsentIsNoOp ==
    /\ (last.op = "unsubscribe"
        /\ last.subscriber \notin Registered(last.subscribers, last.type))
       => subscribers = last.subscribers /\ ~last.threw
    /\ \A t \in EventTypes, s \in ApiSubscribers :
          unsubscribe(unsubscribe(subscribers, t, s), t, s)
             = unsubscribe(subscribers, t, s)

\* an unsubscribe of a subscriber that is not among the subscribers the type
\* has
C12_Witness ==
    /\ last.op = "unsubscribe"
    /\ Registered(last.subscribers, last.type) # {}
    /\ last.subscriber \notin Registered(last.subscribers, last.type)

\* the event class a subscriber class is written for
Expects(class) ==
    CASE class = "MachineSaleSubscriber" -> "MachineSaleEvent"
      [] class = "MachineRefillSubscriber" -> "MachineRefillEvent"
      [] class = "StockwarningSubscriber" -> "LowStockWarningEvent"
      [] class = "StockLevelOkSubscriber" -> "StockLevelOkEvent"

\* C13 (as claimed): a subscriber handed an event of another variant than its
\* own raises nothing, changes no stock level and returns nothing.
C13_MismatchedVariantIsNoOp ==
    last.op = "publish"
    => \A c \in LastCalls :
          c.event.cls # Expects(classOf(c.subscriber))
          => /\ ~last.threw
             /\ c.after = c.before
             /\ c.ret = undefined

\* C14: a publish changes the stock level of no machine but the one the event
\* names, and of that one only when the event is a Sale or a Refill.
C14_OnlyTheNamedMachineChanges ==
    last.op = "publish"
    => /\ DOMAIN machines = DOMAIN last.machines
       /\ \A m \in MachineIds :
             machines[m] # last.machines[m]
             => /\ m = last.event.machineId
                /\ last.event.cls \in {"MachineSaleEvent", "MachineRefillEvent"}

\* a LowStockWarning for a machine below 3 handled by a StockwarningSubscriber
\* while another machine exists
C14_Witness ==
    /\ last.op = "publish"
    /\ last.event.cls = "LowStockWarningEvent"
    /\ last.event.machineId \in MachineIds
    /\ last.machines[last.event.machineId] < 3
    /\ \E c \in LastCalls : classOf(c.subscriber) = "StockwarningSubscriber"
    /\ MachineIds \ {last.event.machineId} # {}

\* C15 (as claimed): every Sale and every Refill the drain loop dispatches
\* carries a quantity of at least 1, and handling a Refill never lowers a
\* stock level.
C15_DispatchedQuantitiesPositive ==
    /\ \A i \in 1..Len(dispatched) :
          dispatched[i].cls \in {"MachineSaleEvent", "MachineRefillEvent"}
          => dispatched[i].quantity >= 1
    /\ \A c \in LastCalls :
          (/\ classOf(c.subscriber) = "MachineRefillSubscriber"
           /\ c.event.cls = "MachineRefillEvent"
           /\ c.event.machineId \in DOMAIN c.before)
          => c.after[c.event.machineId] >= c.before[c.event.machineId]

\* C16 (as claimed): right after the drain loop has dispatched a Refill that
\* is a cascade (not a seed), hence one returned by StockwarningSubscriber,
\* the machine it names is at stock 3.
C16_CorrectiveRefillReachesThreshold ==
    (/\ pc \in {"drain", "done"}
     /\ last.op = "publish"
     /\ last.event.cls = "MachineRefillEvent"
     /\ Len(dispatched) > Len(seeds))
    => machines[last.event.machineId] = 3

\* the final stock levels of the recursive discipline on the driver's seeds
RecursiveFinal ==
    Recursive_run(subscribers, seeds, [m \in MachineIds |-> InitialStock])

NoSeedAfterSaleOnItsMachine ==
    \A i, j \in 1..Len(seeds) :
        (i < j /\ seeds[i].cls = "MachineSaleEvent")
        => seeds[j].machineId # seeds[i].machineId

Notices(es, m) ==
    SelectSeq(es, LAMBDA e : /\ e.machineId = m
                             /\ e.cls \in {"LowStockWarningEvent",
                                         "StockLevelOkEvent"})

\* C18: for each machine, the LowStockWarning and StockLevelOk events
\* enqueued for it alternate in enqueue order, beginning with a
\* LowStockWarning.
C18_NoticesAlternate ==
    \A m \in MachineIds :
        LET ns == Notices(enqueued, m) IN
        \A i \in 1..Len(ns) :
            ns[i].cls = IF i % 2 = 1 THEN "LowStockWarningEvent"
                                     ELSE "StockLevelOkEvent"

\* a machine with a warning, a recovery and a second warning enqueued
C18_Witness ==
    \E m \in MachineIds : Len(Notices(enqueued, m)) >= 3

\* C19: no handler produces a Sale, and a run seeded with n events enqueues,
\* hence dispatches, at most 4 * n events in all.
C19_AtMostFourPerSeed ==
    pc \in {"drain", "done"}
    => /\ Len(enqueued) <= 4 * Len(seeds)
       /\ Len(dispatched) <= 4 * Len(seeds)
       /\ \A i \in (Len(seeds) + 1)..Len(enqueued) :
             enqueued[i].cls # "MachineSaleEvent"

\* a run of two seeds that dispatched eight events
C19_Witness ==
    /\ pc = "done"
    /\ Len(seeds) = 2
    /\ Len(dispatched) = 8

\* C20 (as claimed): when the run has drained its queue every machine is at
\* stock 3 or more.
C20_NoMachineLeftLow ==
    pc = "done" => \A m \in MachineIds : machines[m] >= 3

====
